---- MODULE Spec2Model ----
(***************************************************************************)
(* State-machine models of the carousel component (carousel/carousel.go)   *)
(* and, further down, of the command palette (package commandpalette).     *)
(* Carousel:                                                               *)
(* A Model value is (items, cursor, width, height), the title, the extra  *)
(* footer text and the three colours New resolves; the delegate is the     *)
(* fixed one of DelegateIsMarked.  Every exported operation is one         *)
(* action.  `last` records the call that was made and the cursor and items *)
(* it was made on, `ret` is the value the call returned, `held` is the     *)
(* command of a select that the host program keeps to run later.           *)
(***************************************************************************)
EXTENDS Integers, Sequences, FiniteSets, TLC

VARIABLES items, cursor, width, height, last, ret

VARIABLES activeColor, markedColor, defaultColor, title, extraFooter, held

cfgVars == <<activeColor, markedColor, defaultColor, title, extraFooter>>

\* the command palette's Model: actions, filtered, cursor, the text input
\* (its value, focus and Width), maxResults, maxWidth, width, height; and the
\* last call made on it with the value it returned
VARIABLES actions, filtered, palCursor, query, focus, inputWidth,
          maxResults, maxWidth, palWidth, palHeight, palLast, palRet

palVars == <<actions, filtered, palCursor, query, focus, inputWidth,
             maxResults, maxWidth, palWidth, palHeight, palLast, palRet>>

vars == <<items, cursor, width, height, last, ret, cfgVars, held, palVars>>

----------------------------------------------------------------------------
(* Bounds of the model *)

MaxItems == 3
MaxIdx == 5
NegIdx == 2
NegWidth == 30
MaxWidth == 110

\* longest action list, longest query typed, largest Config.MaxResults
MaxActions == 2
MaxQuery == 1
MaxCfgResults == 1

\* longest run of consecutive moves in one direction that is counted
MaxStreak == 4

\* SetSize calls that are counted
MaxSizeCalls == 2

\* lines of a rendered block, cells of a line and columns kept by a clip
MaxLines == 2
MaxCells == 2
MaxClip == 2

(* Layout constants, carousel.go lines 40-44 *)
minPeekW == 8
carouselGap == 2
maxCenterW == 44

----------------------------------------------------------------------------
(* Input domains *)

ItemVals == {"x", "y"}

ItemSeqs == UNION {[1..k -> ItemVals] : k \in 0..MaxItems}

\* a []any argument: the nil slice, or a slice holding elems
NilItems == [nil |-> TRUE, elems |-> <<>>]

ItemArgs == {[nil |-> FALSE, elems |-> s] : s \in ItemSeqs} \cup {NilItems}

LeftKeys == {"left", "h"}
RightKeys == {"right", "l"}
SelectKeys == {"down", "j", "enter", " "}
OtherKeys == {"esc", "ctrl+c", "up", "k", "q"}
Keys == LeftKeys \cup RightKeys \cup SelectKeys \cup OtherKeys

IdxArgs == (-NegIdx)..MaxIdx

\* terminal sizes handed to SetSize by the state machine
Widths == {-20, 0, 40, 60, 80, 200}
Heights == {0, 24}

\* the cells of a rendered line: a narrow character, a wide character of two
\* columns, and a style sequence, which takes no column
Cells == {"a", "W", "e"}

Lines == UNION {[1..k -> Cells] : k \in 0..MaxCells}

\* a rendered block split at its newlines: at least one line
Blocks == UNION {[1..k -> Lines] : k \in 1..MaxLines}

ClipWidths == 0..MaxClip

\* the colours a Config names: none, or one of its own for each role
CfgActiveColors == {"", "201"}
CfgMarkedColors == {"", "82"}
CfgDefaultColors == {"", "245"}

\* the title and the extra footer text a Config names
CfgTitles == {"", "My Reading List"}
CfgExtraFooters == {"", "a  Add to shelf"}

\* the widths the layout math is examined on
LayoutWidths == ((-NegWidth)..MaxWidth) \cup {200}

----------------------------------------------------------------------------
Min(a, b) == IF a < b THEN a ELSE b

Max(a, b) == IF a > b THEN a ELSE b

(* Go integer division truncates toward zero *)
Quot(a, b) == IF a >= 0 THEN a \div b ELSE -((-a) \div b)

----------------------------------------------------------------------------
(* New *)

NormalizeItems(arg) == IF arg.nil THEN <<>> ELSE arg.elems

----------------------------------------------------------------------------
(* Update *)

\* the cursor > 0 guard left out
MoveLeftUnguarded(c) == c - 1

MoveLeft(c) == IF c > 0 THEN c - 1 ELSE c

\* the cursor wrapped round to the first card after the last
MoveRightWrap(c, n) == IF c < n - 1 THEN c + 1 ELSE 0

\* the move stopped one card before the last
MoveRightShort(c, n) == IF c < n - 2 THEN c + 1 ELSE c

\* the last index taken to be n instead of n-1
MoveRightPastEnd(c, n) == IF c < n THEN c + 1 ELSE c

MoveRight(c, n) == IF c < n - 1 THEN c + 1 ELSE c

\* the index reported one-based
SelectCmdOneBased(its, c) == [kind |-> "cmd", Index |-> c + 1, Item |-> its[c + 1]]

\* the closure captures idx and item when Update runs; Go slices index from 0
SelectCmd(its, c) == [kind |-> "cmd", Index |-> c, Item |-> its[c + 1]]

NilCmd == [kind |-> "nil"]

\* the message built from the Model as it is when the command runs
MsgOfLive(cmd, its, c) ==
    [kind |-> "msg", Index |-> c,
     Item |-> IF c + 1 \in DOMAIN its THEN its[c + 1] ELSE "none"]

\* the ItemSelectedMsg the command of a select returns when it is run on a
\* Model of items its and cursor c: the closure returns the idx and item it
\* captured
MsgOf(cmd, its, c) == [kind |-> "msg", Index |-> cmd.Index, Item |-> cmd.Item]

\* the vim "up" key taken for a move
IsLeftKeyVim(key) == key \in {"left", "h", "k"}

IsLeftKey(key) == key \in {"left", "h"}

IsRightKey(key) == key \in {"right", "l"}

\* "up" taken for a select key as "down" is
IsSelectKeyUp(key) == key \in {"down", "up", "j", "enter", " "}

IsSelectKey(key) == key \in {"down", "j", "enter", " "}

UpdateCursor(its, c, key) ==
    IF Len(its) = 0 THEN c
    ELSE IF IsLeftKey(key) THEN MoveLeft(c)
    ELSE IF IsRightKey(key) THEN MoveRight(c, Len(its))
    ELSE c

\* the n = 0 early return left out: a select indexes the items whatever
\* their number, and an index outside the slice is a run-time panic
UpdateCmdNoGuard(its, c, key) ==
    IF IsLeftKey(key) \/ IsRightKey(key) THEN NilCmd
    ELSE IF IsSelectKey(key)
    THEN IF c + 1 \in DOMAIN its THEN SelectCmd(its, c)
         ELSE [kind |-> "panic"]
    ELSE NilCmd

UpdateCmd(its, c, key) ==
    IF Len(its) = 0 THEN NilCmd
    ELSE IF IsLeftKey(key) \/ IsRightKey(key) THEN NilCmd
    ELSE IF IsSelectKey(key) THEN SelectCmd(its, c)
    ELSE NilCmd

----------------------------------------------------------------------------
(* SetCursor, SetItems *)

\* the lower clamp left out
SetCursorValueNoFloor(its, idx) ==
    LET n == Len(its)
    IN IF n > 0 /\ idx >= n THEN n - 1 ELSE idx

SetCursorValue(its, idx) ==
    LET i1 == IF idx < 0 THEN 0 ELSE idx
        n == Len(its)
    IN IF n > 0 /\ i1 >= n THEN n - 1 ELSE i1

\* the cursor reset to the first item whenever it need not be clamped
SetItemsCursorReset(newItems, c) ==
    LET n == Len(newItems)
    IN IF n > 0 /\ c >= n THEN n - 1 ELSE 0

\* the cursor of a carousel that is emptied put back to the first card
SetItemsCursorZeroOnEmpty(newItems, c) ==
    LET n == Len(newItems)
    IN IF n = 0 THEN 0 ELSE IF c >= n THEN n - 1 ELSE c

\* the cursor kept as it is
SetItemsCursorKeep(newItems, c) == c

SetItemsCursor(newItems, c) ==
    LET n == Len(newItems)
    IN IF n > 0 /\ c >= n THEN n - 1 ELSE c

----------------------------------------------------------------------------
(* Layout math of View *)

\* the 6 columns of the caller's border and padding not subtracted
UsableNoChrome(w) == w

Usable(w) == w - 6

\* the cap of maxCenterW left out
CenterWNoCap(w) ==
    LET raw == Usable(w) - 2 * (minPeekW + carouselGap)
    IN IF raw < 24 THEN 24 ELSE raw

CenterW(w) ==
    LET raw == Usable(w) - 2 * (minPeekW + carouselGap)
        capped == IF raw > maxCenterW THEN maxCenterW ELSE raw
    IN IF capped < 24 THEN 24 ELSE capped

\* the two border columns of the center card left out of the cap
MaxPeekNoBorder(w) == Quot(CenterW(w), 2)

MaxPeek(w) == Quot(CenterW(w) + 2, 2)

\* the two gaps left out of the space shared by the peek slots
PeekWNoGap(w) ==
    LET raw == Quot(Usable(w) - CenterW(w), 2)
        capped == IF raw > MaxPeek(w) THEN MaxPeek(w) ELSE raw
    IN IF capped < minPeekW THEN minPeekW ELSE capped

\* the floor of minPeekW left out
PeekWNoFloor(w) ==
    LET raw == Quot(Usable(w) - CenterW(w) - 2 * carouselGap, 2)
    IN IF raw > MaxPeek(w) THEN MaxPeek(w) ELSE raw

PeekW(w) ==
    LET raw == Quot(Usable(w) - CenterW(w) - 2 * carouselGap, 2)
        capped == IF raw > MaxPeek(w) THEN MaxPeek(w) ELSE raw
    IN IF capped < minPeekW THEN minPeekW ELSE capped

CardContentH(w) ==
    LET h == Quot((CenterW(w) + 2) * 3, 10)
    IN IF h < 8 THEN 8 ELSE h

\* the last-index case tested before the first-index case
NavHintLastFirst(c, n) ==
    IF c = n - 1 THEN "left"
    ELSE IF c = 0 THEN "right"
    ELSE "both"

\* "right" stands for the hint with the right arrow only, "left" for the one
\* with the left arrow only, "both" for the one with both arrows
NavHint(c, n) ==
    IF c = 0 THEN "right"
    ELSE IF c = n - 1 THEN "left"
    ELSE "both"

\* the delegate calls of one render of a non-empty carousel, in order, each
\* with the 0-based index of the item it is made on: MarkedCount, the
\* center card, the left neighbour, the right neighbour
DelegateCalls(its, c) ==
    LET n == Len(its)
        markedCount == [i \in 1..n |-> [fn |-> "IsMarked", idx |-> i - 1]]
        center == <<[fn |-> "Render", idx |-> c]>>
        left == IF c > 0
                THEN <<[fn |-> "Render", idx |-> c - 1],
                       [fn |-> "IsMarked", idx |-> c - 1]>>
                ELSE <<>>
        right == IF c < n - 1
                 THEN <<[fn |-> "Render", idx |-> c + 1],
                        [fn |-> "IsMarked", idx |-> c + 1]>>
                 ELSE <<>>
    IN markedCount \o center \o left \o right

(* Clipping.  A block is the sequence of its lines, as strings.Split gives *)
(* them and strings.Join puts them back.  StringWidth, Truncate and        *)
(* TruncateLeft are the functions of charmbracelet/x/ansi that peekLeft    *)
(* and peekRight call, with an empty tail: printable cells are counted by  *)
(* their columns and style sequences are always kept.                      *)

CellWidth(c) == IF c = "a" THEN 1 ELSE IF c = "W" THEN 2 ELSE 0

RECURSIVE StringWidth(_)
StringWidth(line) ==
    IF line = <<>> THEN 0
    ELSE CellWidth(Head(line)) + StringWidth(Tail(line))

\* the cells of line from position i on that a cut keeping the first n
\* columns keeps, used columns so far; a cell that does not fit ends the
\* printable part
RECURSIVE TruncateFrom(_, _, _, _)
TruncateFrom(line, i, used, n) ==
    IF i > Len(line) THEN <<>>
    ELSE LET c == line[i]
         IN IF CellWidth(c) = 0
            THEN <<c>> \o TruncateFrom(line, i + 1, used, n)
            ELSE IF used + CellWidth(c) <= n
            THEN <<c>> \o TruncateFrom(line, i + 1, used + CellWidth(c), n)
            ELSE TruncateFrom(line, i + 1, n + 1, n)

Truncate(line, n) ==
    IF StringWidth(line) <= n THEN line ELSE TruncateFrom(line, 1, 0, n)

\* the cells of line from position i on that a cut dropping the first k
\* columns keeps, seen columns so far; a wide cell that lies across the cut
\* is kept or dropped as keep says
RECURSIVE TruncateLeftFrom(_, _, _, _, _)
TruncateLeftFrom(line, i, seen, k, keep) ==
    IF i > Len(line) THEN <<>>
    ELSE LET c == line[i]
             w == CellWidth(c)
         IN IF w = 0
            THEN <<c>> \o TruncateLeftFrom(line, i + 1, seen, k, keep)
            ELSE IF seen >= k
            THEN <<c>> \o TruncateLeftFrom(line, i + 1, seen + w, k, keep)
            ELSE IF seen + w <= k
            THEN TruncateLeftFrom(line, i + 1, seen + w, k, keep)
            ELSE IF keep
            THEN <<c>> \o TruncateLeftFrom(line, i + 1, seen + w, k, keep)
            ELSE TruncateLeftFrom(line, i + 1, seen + w, k, keep)

TruncateLeft(line, k, keep) ==
    IF k <= 0 THEN line ELSE TruncateLeftFrom(line, 1, 0, k, keep)

PeekLeft(s, n) == [i \in 1..Len(s) |-> Truncate(s[i], n)]

\* the width of the widest line of the block used for every line
PeekRightBlockWidth(s, n, keep) ==
    LET w == CHOOSE x \in {StringWidth(s[i]) : i \in 1..Len(s)} :
                 \A j \in 1..Len(s) : StringWidth(s[j]) <= x
    IN [i \in 1..Len(s) |->
           IF w > n THEN TruncateLeft(s[i], w - n, keep) ELSE s[i]]

PeekRight(s, n, keep) ==
    [i \in 1..Len(s) |->
        LET w == StringWidth(s[i])
        IN IF w > n THEN TruncateLeft(s[i], w - n, keep) ELSE s[i]]

\* the filled glyph put one position after the cursor
DotsOneBased(n, c) ==
    [i \in 1..n |-> IF i - 1 = c + 1
                    THEN [glyph |-> "filled", fg |-> activeColor]
                    ELSE [glyph |-> "hollow", fg |-> defaultColor]]

\* the position indicator: one glyph for each item, in order
Dots(n, c) ==
    [i \in 1..n |-> IF i - 1 = c
                    THEN [glyph |-> "filled", fg |-> activeColor]
                    ELSE [glyph |-> "hollow", fg |-> defaultColor]]

\* the delegate of the host program: it reports the items "y" as marked
DelegateIsMarked(item) == item = "y"

\* the marked case tried before the active case
RenderCardMarkedFirst(its, i, active) ==
    IF i + 1 \notin DOMAIN its THEN [kind |-> "panic"]
    ELSE LET item == its[i + 1]
         IN IF DelegateIsMarked(item)
            THEN [kind |-> "card", idx |-> i, item |-> item,
                  role |-> "marked", border |-> markedColor]
            ELSE IF active
            THEN [kind |-> "card", idx |-> i, item |-> item,
                  role |-> "active", border |-> activeColor]
            ELSE [kind |-> "card", idx |-> i, item |-> item,
                  role |-> "default", border |-> defaultColor]

\* the card of the item at the 0-based index i: the item read, the case of
\* the switch taken, and the border colour of that case; an index outside
\* the slice is a run-time panic
RenderCard(its, i, active) ==
    IF i + 1 \notin DOMAIN its THEN [kind |-> "panic"]
    ELSE LET item == its[i + 1]
         IN IF active
            THEN [kind |-> "card", idx |-> i, item |-> item,
                  role |-> "active", border |-> activeColor]
            ELSE IF DelegateIsMarked(item)
            THEN [kind |-> "card", idx |-> i, item |-> item,
                  role |-> "marked", border |-> markedColor]
            ELSE [kind |-> "card", idx |-> i, item |-> item,
                  role |-> "default", border |-> defaultColor]

GhostCard == [kind |-> "ghost", border |-> "235"]

\* the left neighbour of the first card taken to be the last card
CardRowWrap(its, c) ==
    LET n == Len(its)
    IN [center |-> RenderCard(its, c, TRUE),
        left |-> IF c > 0 THEN RenderCard(its, c - 1, FALSE)
                 ELSE RenderCard(its, n - 1, FALSE),
        right |-> IF c < n - 1 THEN RenderCard(its, c + 1, FALSE)
                  ELSE GhostCard]

\* the three slots of the card row
CardRow(its, c) ==
    LET n == Len(its)
    IN [center |-> RenderCard(its, c, TRUE),
        left |-> IF c > 0 THEN RenderCard(its, c - 1, FALSE) ELSE GhostCard,
        right |-> IF c < n - 1 THEN RenderCard(its, c + 1, FALSE)
                  ELSE GhostCard]

\* the layout computed from the stored height instead of the stored width
ViewOfByHeight(its, c, w) ==
    IF Len(its) = 0 THEN [kind |-> "view", text |-> "empty", calls |-> <<>>]
    ELSE [kind |-> "view", text |-> "block",
          centerW |-> CenterW(height), peekW |-> PeekW(height),
          cardContentH |-> CardContentH(height),
          navHint |-> NavHint(c, Len(its)),
          dots |-> Dots(Len(its), c),
          row |-> CardRow(its, c),
          calls |-> DelegateCalls(its, c)]

\* the n = 0 early return left out
ViewOfNoGuard(its, c, w) ==
    [kind |-> "view", text |-> "block",
     centerW |-> CenterW(w), peekW |-> PeekW(w),
     cardContentH |-> CardContentH(w),
     navHint |-> NavHint(c, Len(its)),
     dots |-> Dots(Len(its), c),
     row |-> CardRow(its, c),
     calls |-> DelegateCalls(its, c)]

ViewOf(its, c, w) ==
    IF Len(its) = 0 THEN [kind |-> "view", text |-> "empty", calls |-> <<>>]
    ELSE [kind |-> "view", text |-> "block",
          centerW |-> CenterW(w), peekW |-> PeekW(w),
          cardContentH |-> CardContentH(w),
          navHint |-> NavHint(c, Len(its)),
          dots |-> Dots(Len(its), c),
          row |-> CardRow(its, c),
          calls |-> DelegateCalls(its, c)]

----------------------------------------------------------------------------
(* The state machine *)

Void == [kind |-> "void"]

defaultMaxResults == 10
defaultMaxWidth == 60

\* the palette made by New(Config{}) and not used: the state of the palette
\* while the carousel is examined
PalIdle ==
    /\ actions = <<>>
    /\ filtered = <<>>
    /\ palCursor = 0
    /\ query = <<>>
    /\ focus = FALSE
    /\ inputWidth = defaultMaxWidth - 6
    /\ maxResults = defaultMaxResults
    /\ maxWidth = defaultMaxWidth
    /\ palWidth = 0
    /\ palHeight = 0
    /\ palLast = [op |-> "New", key |-> "", arg |-> <<>>, actions0 |-> <<>>,
                  filtered0 |-> <<>>, query0 |-> <<>>, cursor0 |-> 0,
                  maxResults0 |-> defaultMaxResults,
                  maxWidth0 |-> defaultMaxWidth]
    /\ palRet = Void

\* no run of moves
NoStreak == [dir |-> "none", from |-> 0, len |-> 0]

\* the run of consecutive Update calls with keys of one direction that the
\* call (op, key) made at cursor c continues or starts: its direction, the
\* cursor it started from and its length, counted up to MaxStreak
NextStreak(s, op, key, c) ==
    LET dir == IF op = "Update" /\ key \in LeftKeys THEN "left"
               ELSE IF op = "Update" /\ key \in RightKeys THEN "right"
               ELSE "none"
    IN IF dir = "none" THEN NoStreak
       ELSE IF s.dir = dir
            THEN [dir |-> dir, from |-> s.from, len |-> Min(s.len + 1, MaxStreak)]
       ELSE [dir |-> dir, from |-> c, len |-> 1]

\* SetSize has not been called
NoSize == [w |-> 0, h |-> 0, calls |-> 0]

\* whether the call before this one was a SetItems that left the carousel
\* empty, and the cursor that call was made on
PrevEmptied ==
    IF last.op = "SetItems" /\ items = <<>>
    THEN [emptied |-> TRUE, cursor0 |-> last.cursor0]
    ELSE [emptied |-> FALSE, cursor0 |-> 0]

\* the record of a call: the operation and its arguments, the items and the
\* cursor it is made on, the run of moves it belongs to, the arguments of
\* the most recent SetSize with the number of SetSize calls so far, and
\* whether the call before it emptied the carousel
Call(op, key, idx, nilArg) ==
    [op |-> op, key |-> key, idx |-> idx, nilArg |-> nilArg,
     items0 |-> items, cursor0 |-> cursor,
     streak |-> NextStreak(last.streak, op, key, cursor),
     size |-> last.size,
     prev |-> PrevEmptied]

\* no command is kept
NoCmd == [kind |-> "none"]

\* every colour is the default one, whatever the Config names
ColorAlwaysDefault(c, d) == d

ColorOrDefault(c, d) == IF c = "" THEN d ELSE c

\* the Model New returns for the Config of items arg and colours ac, mc, dc
New(arg, ac, mc, dc, t, ef) ==
    /\ items = NormalizeItems(arg)
    /\ cursor = 0
    /\ width = 0
    /\ height = 0
    /\ activeColor = ColorOrDefault(ac, "#fb6820")
    /\ markedColor = ColorOrDefault(mc, "28")
    /\ defaultColor = ColorOrDefault(dc, "240")
    /\ title = t
    /\ extraFooter = ef
    /\ held = NoCmd
    /\ last = [op |-> "New", key |-> "", idx |-> 0,
               nilArg |-> arg.nil,
               items0 |-> <<>>, cursor0 |-> 0, streak |-> NoStreak,
               size |-> NoSize,
               cfg |-> [Items |-> arg, ActiveColor |-> ac,
                        MarkedColor |-> mc, DefaultColor |-> dc,
                        Title |-> t, ExtraFooter |-> ef]]
    /\ ret = Void
    /\ PalIdle

\* a carousel of the default colours, with a title and an extra footer text
Init ==
    \E arg \in ItemArgs :
        New(arg, "", "", "", "My Reading List", "a  Add to shelf")

\* the Model value the host program holds
ModelValue ==
    [items |-> items, cursor |-> cursor, width |-> width, height |-> height,
     title |-> title, activeColor |-> activeColor,
     markedColor |-> markedColor, defaultColor |-> defaultColor,
     extraFooter |-> extraFooter]

\* a fresh Model built from the items and the new cursor alone
UpdateModelFresh(m, key) ==
    [items |-> m.items, cursor |-> UpdateCursor(m.items, m.cursor, key),
     width |-> 0, height |-> 0, title |-> "", activeColor |-> "",
     markedColor |-> "", defaultColor |-> "", extraFooter |-> ""]

\* the Model Update returns: its receiver m with, at most, the cursor
\* assigned
UpdateModel(m, key) ==
    [m EXCEPT !.cursor = UpdateCursor(m.items, m.cursor, key)]

\* the value Update was called on, after the call: the receiver is passed
\* by value, the assignments to m.cursor are made on the copy
Receiver(m, key) == m

\* Update with the key msg.String() gives; the host replaces its Model by
\* the one returned
UpdateKey(key) ==
    LET m == ModelValue
        r == UpdateModel(m, key)
    IN /\ items' = r.items
       /\ cursor' = r.cursor
       /\ width' = r.width
       /\ height' = r.height
       /\ title' = r.title
       /\ activeColor' = r.activeColor
       /\ markedColor' = r.markedColor
       /\ defaultColor' = r.defaultColor
       /\ extraFooter' = r.extraFooter
       /\ ret' = UpdateCmd(items, cursor, key)
       /\ last' = Call("Update", key, 0, FALSE)
                    @@ [m0 |-> m, recv |-> Receiver(m, key)]
       /\ UNCHANGED <<held, palVars>>

Update == \E key \in Keys : UpdateKey(key)

SetCursor ==
    \E idx \in IdxArgs :
        /\ cursor' = SetCursorValue(items, idx)
        /\ ret' = Void
        /\ last' = Call("SetCursor", "", idx, FALSE)
        /\ UNCHANGED <<items, width, height>>
        /\ UNCHANGED <<cfgVars, held, palVars>>

SetItems ==
    \E arg \in ItemArgs :
        /\ items' = NormalizeItems(arg)
        /\ cursor' = SetItemsCursor(NormalizeItems(arg), cursor)
        /\ ret' = Void
        /\ last' = Call("SetItems", "", 0, arg.nil)
        /\ UNCHANGED <<width, height>>
        /\ UNCHANGED <<cfgVars, held, palVars>>

SetSize ==
    \E w \in Widths, h \in Heights :
        /\ width' = w
        /\ height' = h
        /\ ret' = Void
        /\ last' = [Call("SetSize", "", 0, FALSE) EXCEPT
                        !.size = [w |-> w, h |-> h,
                                  calls |-> Min(last.size.calls + 1,
                                                MaxSizeCalls)]]
        /\ UNCHANGED <<items, cursor>>
        /\ UNCHANGED <<cfgVars, held, palVars>>

View ==
    /\ ret' = ViewOf(items, cursor, width)
    /\ last' = Call("View", "", 0, FALSE)
    /\ UNCHANGED <<items, cursor, width, height>>
    /\ UNCHANGED <<cfgVars, held, palVars>>

Next == Update \/ SetCursor \/ SetItems \/ SetSize \/ View

Spec == Init /\ [][Next]_vars

----------------------------------------------------------------------------
(* The layout math on its own: a carousel built by New and sized once by   *)
(* SetSize with any width of LayoutWidths, then rendered.                  *)

LayoutInit ==
    \E arg \in ItemArgs, w \in LayoutWidths, h \in Heights :
        /\ items = NormalizeItems(arg)
        /\ cursor = 0
        /\ width = w
        /\ height = h
        /\ last = [op |-> "SetSize", key |-> "", idx |-> 0, nilArg |-> FALSE,
                   items0 |-> NormalizeItems(arg), cursor0 |-> 0,
                   streak |-> NoStreak,
                   size |-> [w |-> w, h |-> h, calls |-> 1]]
        /\ activeColor = "#fb6820"
        /\ markedColor = "28"
        /\ defaultColor = "240"
        /\ title = ""
        /\ extraFooter = ""
        /\ held = NoCmd
        /\ ret = Void
        /\ PalIdle

LayoutNext == View

SpecLayout == LayoutInit /\ [][LayoutNext]_vars

----------------------------------------------------------------------------
(* Construction and rendering: a carousel built by New from any Config of  *)
(* the input domains, its own colours included, then moved and rendered.   *)

RenderInit ==
    \E arg \in ItemArgs, ac \in CfgActiveColors, mc \in CfgMarkedColors,
       dc \in CfgDefaultColors, t \in CfgTitles, ef \in CfgExtraFooters :
        New(arg, ac, mc, dc, t, ef)

RenderNext == Update \/ View

SpecRender == RenderInit /\ [][RenderNext]_vars

----------------------------------------------------------------------------
(* The clipping functions on their own: a block and a number of columns    *)
(* are chosen, `last` holds them, and peekLeft and peekRight are applied   *)
(* to them.  What x/ansi does with a wide character that lies across the   *)
(* cut of TruncateLeft is left open: both outcomes are taken.              *)

ClipInit ==
    \E s \in Blocks, n \in ClipWidths :
        /\ items = <<>>
        /\ cursor = 0
        /\ width = 0
        /\ height = 0
        /\ activeColor = "#fb6820"
        /\ markedColor = "28"
        /\ defaultColor = "240"
        /\ title = ""
        /\ extraFooter = ""
        /\ held = NoCmd
        /\ last = [op |-> "none", s |-> s, n |-> n]
        /\ ret = Void
        /\ PalIdle

peekLeft ==
    /\ ret' = [kind |-> "block", lines |-> PeekLeft(last.s, last.n)]
    /\ last' = [last EXCEPT !.op = "peekLeft"]
    /\ UNCHANGED <<items, cursor, width, height, cfgVars, held, palVars>>

peekRight ==
    \E keep \in BOOLEAN :
        /\ ret' = [kind |-> "block", lines |-> PeekRight(last.s, last.n, keep)]
        /\ last' = [last EXCEPT !.op = "peekRight"]
        /\ UNCHANGED <<items, cursor, width, height, cfgVars, held, palVars>>

ClipNext == peekLeft \/ peekRight

SpecClip == ClipInit /\ [][ClipNext]_vars

----------------------------------------------------------------------------
(* Moves alone: a non-empty carousel with the cursor on any of its cards,  *)
(* as SetCursor leaves it, on which the host goes on calling Update with   *)
(* the keys of one direction.  The direction is the one of the first move; *)
(* the host never stops pressing, which is the weak fairness of the two    *)
(* actions.                                                                *)

MovesInit ==
    \E its \in ItemSeqs \ {<<>>} :
    \E c \in 0..(Len(its) - 1) :
        /\ items = its
        /\ cursor = c
        /\ width = 0
        /\ height = 0
        /\ activeColor = "#fb6820"
        /\ markedColor = "28"
        /\ defaultColor = "240"
        /\ title = ""
        /\ extraFooter = ""
        /\ held = NoCmd
        /\ last = [op |-> "SetCursor", key |-> "", idx |-> c,
                   nilArg |-> FALSE, items0 |-> its, cursor0 |-> 0,
                   streak |-> NoStreak, size |-> NoSize,
                   prev |-> [emptied |-> FALSE, cursor0 |-> 0]]
        /\ ret = Void
        /\ PalIdle

RepeatRight ==
    /\ last.streak.dir \in {"none", "right"}
    /\ \E key \in RightKeys : UpdateKey(key)

RepeatLeft ==
    /\ last.streak.dir \in {"none", "left"}
    /\ \E key \in LeftKeys : UpdateKey(key)

MovesNext == RepeatRight \/ RepeatLeft

SpecMoves ==
    /\ MovesInit
    /\ [][MovesNext]_vars
    /\ WF_vars(RepeatRight)
    /\ WF_vars(RepeatLeft)

----------------------------------------------------------------------------
(* Commands run later: the host program keeps the command a select         *)
(* returned, goes on calling the setters and Update, and runs the command  *)
(* at any later time, as the Bubble Tea runtime does.                      *)

\* the host keeps the command the Update call just made returned, with the
\* cursor that call was made on and the item that was under it
Keep ==
    /\ last.op = "Update"
    /\ ret.kind = "cmd"
    /\ held' = [kind |-> "cmd", cmd |-> ret,
                cursor0 |-> last.cursor0,
                item0 |-> last.items0[last.cursor0 + 1]]
    /\ UNCHANGED <<items, cursor, width, height, last, ret>>
    /\ UNCHANGED <<cfgVars, palVars>>

\* the command that is kept runs and returns its message
RunCmd ==
    /\ held.kind = "cmd"
    /\ ret' = MsgOf(held.cmd, items, cursor)
    /\ last' = Call("Cmd", "", 0, FALSE)
    /\ UNCHANGED <<items, cursor, width, height>>
    /\ UNCHANGED <<cfgVars, held, palVars>>

CmdNext == Update \/ Keep \/ SetCursor \/ SetItems \/ RunCmd

SpecCmd == Init /\ [][CmdNext]_vars

----------------------------------------------------------------------------
(* Properties of the carousel *)

Updated == last.op = "Update"

Rendered == last.op = "View" /\ Len(items) > 0

\* C1: whenever the item sequence is non-empty the cursor indexes it,
\* 0 <= cursor < len(items), after any sequence of Update, SetCursor,
\* SetItems and SetSize calls from New.
C1_CursorInRange ==
    Len(items) > 0 => (0 <= cursor /\ cursor < Len(items))

\* a cursor set past the end while the carousel was empty, then clamped by
\* SetItems with a non-empty sequence
C1_Witness ==
    /\ last.op = "SetItems"
    /\ Len(last.items0) = 0
    /\ Len(items) > 0
    /\ last.cursor0 > Len(items)

\* C2: Update with left/h at cursor 0, and with right/l at the last index,
\* leaves cursor and items unchanged and returns no command.
C2_BoundaryMoveNoOp ==
    (/\ Updated
     /\ \/ last.key \in {"left", "h"} /\ last.cursor0 = 0
        \/ last.key \in {"right", "l"} /\ last.cursor0 = Len(last.items0) - 1)
    => (cursor = last.cursor0 /\ items = last.items0 /\ ret = NilCmd)

C2_Witness ==
    /\ Updated
    /\ last.key = "l"
    /\ Len(last.items0) >= 2
    /\ last.cursor0 = Len(last.items0) - 1

\* C3: on a non-empty carousel, Update with enter, down, j or space returns
\* a command yielding ItemSelectedMsg{Index: c, Item: items[c]} for the
\* cursor c it was called on, and leaves the cursor at c.
C3_SelectEmits ==
    (Updated /\ Len(last.items0) > 0 /\ last.key \in {"enter", "down", "j", " "})
    => /\ ret = [kind |-> "cmd", Index |-> last.cursor0,
                 Item |-> last.items0[last.cursor0 + 1]]
       /\ cursor = last.cursor0

C3_Witness ==
    /\ Updated
    /\ last.key = " "
    /\ Len(last.items0) = 3
    /\ last.cursor0 = 2
    /\ ret.kind = "cmd"

\* C4: Update returns a command if and only if the key is one of
\* enter/down/j/space and the item sequence is non-empty.
C4_EventOnlyOnSelect ==
    Updated =>
        (ret.kind = "cmd" <=>
            (last.key \in {"enter", "down", "j", " "} /\ Len(last.items0) > 0))

\* a move that changed the cursor and returned no command
C4_Witness ==
    /\ Updated
    /\ last.key \in {"right", "l"}
    /\ cursor = last.cursor0 + 1
    /\ ret = NilCmd

\* C5: Update with a key other than left, h, right, l, enter, down, j,
\* space leaves cursor and items unchanged and returns no command.
C5_OtherKeysIgnored ==
    (Updated /\ last.key \notin {"left", "h", "right", "l", "enter", "down", "j", " "})
    => (cursor = last.cursor0 /\ items = last.items0 /\ ret = NilCmd)

C5_Witness ==
    /\ Updated
    /\ last.key = "k"
    /\ Len(last.items0) = 3
    /\ last.cursor0 = 1

\* C6: SetItems with a non-empty sequence sets the cursor to the last index
\* when the cursor was at or past the new length, and leaves it unchanged
\* when it was in range.
C6_SetItemsClamps ==
    (last.op = "SetItems" /\ Len(items) > 0)
    => /\ last.cursor0 >= Len(items) => cursor = Len(items) - 1
       /\ last.cursor0 < Len(items) => cursor = last.cursor0

\* a replacement by a longer sequence with the cursor off the first item
C6_Witness ==
    /\ last.op = "SetItems"
    /\ Len(last.items0) = 2
    /\ Len(items) = 3
    /\ last.cursor0 = 1

\* C7: on a non-empty carousel of n items SetCursor(idx) leaves the cursor
\* at min(n-1, max(0, idx)) for every integer idx.
C7_SetCursorClamps ==
    (last.op = "SetCursor" /\ Len(items) > 0)
    => cursor = Min(Len(items) - 1, Max(0, last.idx))

C7_Witness ==
    /\ last.op = "SetCursor"
    /\ Len(items) = 2
    /\ last.idx < 0
    /\ last.cursor0 = 1

\* C8: SetCursor on a carousel with an empty item sequence leaves the cursor
\* value unchanged, for every integer idx.
C8_SetCursorEmptyNoOp ==
    (last.op = "SetCursor" /\ Len(items) = 0) => cursor = last.cursor0

\* C9: for every width >= 0 the layout of a render has
\* 24 <= centerWidth <= 44, 8 <= peekWidth <= (centerWidth+2)/2 and
\* cardHeight >= 8.
C9_LayoutBounds ==
    (Rendered /\ width >= 0)
    => /\ ret.text = "block"
       /\ 24 <= ret.centerW /\ ret.centerW <= 44
       /\ ret.peekW >= 8
       /\ ret.peekW <= (ret.centerW + 2) \div 2
       /\ ret.cardContentH >= 8

\* a width wide enough for both caps to apply
C9_Witness ==
    /\ Rendered
    /\ width >= 0
    /\ ret.centerW = 44
    /\ ret.peekW = 23

\* C10: for every width below 50, zero and negative widths included, the
\* layout of a render is centerWidth = 24, peekWidth = 8, cardHeight = 8.
C10_DegenerateLayout ==
    (Rendered /\ width < 50)
    => /\ ret.text = "block"
       /\ ret.centerW = 24
       /\ ret.peekW = 8
       /\ ret.cardContentH = 8

\* a negative width, which makes usable negative
C10_Witness ==
    /\ Rendered
    /\ width < 0
    /\ ret.text = "block"

\* C11: the center width of a render is min(44, max(24, width - 6 - 2*(8+2))),
\* the floor of 24 applied last; width 200 gives 44, and so does every
\* width >= 70.
C11_CenterWidthFormula ==
    Rendered
    => /\ ret.centerW = Max(24, Min(44, width - 6 - 2 * (8 + 2)))
       /\ ret.centerW = Min(44, Max(24, width - 6 - 2 * (8 + 2)))
       /\ width = 200 => ret.centerW = 44
       /\ width >= 70 => ret.centerW = 44

\* a width strictly between the floor and the cap of the center width
C11_Witness ==
    /\ Rendered
    /\ width = 60
    /\ ret.centerW = 34

\* C12: View on a carousel with zero items returns the empty string and calls
\* neither delegate.Render nor delegate.IsMarked, whatever the width, height
\* and cursor.
C12_EmptyViewIsEmpty ==
    (last.op = "View" /\ Len(items) = 0)
    => (ret.text = "empty" /\ ret.calls = <<>>)

\* an empty carousel rendered with a non-zero size and a non-zero cursor
C12_Witness ==
    /\ last.op = "View"
    /\ Len(items) = 0
    /\ cursor > 0
    /\ width > 0
    /\ height > 0
    /\ ret.text = "empty"

\* C13: the footer hint of a render has the right arrow only when cursor = 0,
\* the left arrow only when cursor = len(items)-1 and cursor # 0, and both
\* arrows otherwise; with exactly one item it has the right arrow only.
C13_NavHint ==
    Rendered
    => /\ cursor = 0 => ret.navHint = "right"
       /\ (cursor = Len(items) - 1 /\ cursor # 0) => ret.navHint = "left"
       /\ (cursor # 0 /\ cursor # Len(items) - 1) => ret.navHint = "both"
       /\ Len(items) = 1 => ret.navHint = "right"

\* a single-item carousel rendered
C13_Witness ==
    /\ Rendered
    /\ Len(items) = 1
    /\ ret.navHint = "right"

\* C21: on a carousel of n > 0 items, k consecutive Update(right/l) calls
\* from cursor c leave the cursor at min(n-1, c+k) and k consecutive
\* Update(left/h) calls leave it at max(0, c-k); a single call moves the
\* cursor by at most one position and never wraps around.
C21_MoveArithmetic ==
    (Updated /\ Len(items) > 0)
    => /\ (last.streak.dir = "right" /\ last.streak.len < MaxStreak)
          => cursor = Min(Len(items) - 1, last.streak.from + last.streak.len)
       /\ (last.streak.dir = "left" /\ last.streak.len < MaxStreak)
          => cursor = Max(0, last.streak.from - last.streak.len)
       /\ cursor - last.cursor0 \in {-1, 0, 1}
       /\ last.key \in {"right", "l"} => cursor >= last.cursor0
       /\ last.key \in {"left", "h"} => cursor <= last.cursor0

\* three moves to the right from the first of three cards: the third is
\* stopped at the last card
C21_Witness ==
    /\ Updated
    /\ Len(items) = 3
    /\ last.streak = [dir |-> "right", from |-> 0, len |-> 3]
    /\ cursor = 2

\* C22: in every render of a non-empty carousel the center slot shows
\* items[cursor]; the left slot shows items[cursor-1] if cursor > 0 and is a
\* ghost card exactly when cursor = 0; the right slot shows items[cursor+1]
\* if cursor < len-1 and is a ghost card exactly when cursor = len-1; no
\* item index outside [0, len) is read.
C22_Slots ==
    Rendered
    => LET n == Len(items)
           row == ret.row
       IN /\ cursor \in 0..(n - 1)
          /\ row.center.kind = "card"
          /\ row.center.idx = cursor
          /\ row.center.item = items[cursor + 1]
          /\ cursor > 0 => /\ row.left.kind = "card"
                           /\ row.left.idx = cursor - 1
                           /\ row.left.item = items[cursor]
          /\ row.left.kind = "ghost" <=> cursor = 0
          /\ cursor < n - 1 => /\ row.right.kind = "card"
                               /\ row.right.idx = cursor + 1
                               /\ row.right.item = items[cursor + 2]
          /\ row.right.kind = "ghost" <=> cursor = n - 1
          /\ \A slot \in {row.left, row.center, row.right} :
                /\ slot.kind # "panic"
                /\ slot.kind = "card" => slot.idx \in 0..(n - 1)
          /\ \A i \in DOMAIN ret.calls : ret.calls[i].idx \in 0..(n - 1)

\* a render at the first of two cards: a ghost on the left, the second card
\* on the right
C22_Witness ==
    /\ Rendered
    /\ items = <<"x", "y">>
    /\ cursor = 0
    /\ ret.row.left.kind = "ghost"
    /\ ret.row.center.item = "x"
    /\ ret.row.right.kind = "card"
    /\ ret.row.right.item = "y"

\* C23: the center card always has the active colour, whether or not its
\* item is marked; a neighbour card has the marked colour if the delegate
\* reports its item marked and the default colour otherwise, and never
\* takes the active colour role.
C23_BorderColours ==
    Rendered
    => LET row == ret.row
       IN /\ row.center.role = "active"
          /\ row.center.border = activeColor
          /\ \A nb \in {row.left, row.right} :
                nb.kind = "card"
                => /\ nb.role # "active"
                   /\ DelegateIsMarked(nb.item)
                      => nb.role = "marked" /\ nb.border = markedColor
                   /\ ~DelegateIsMarked(nb.item)
                      => nb.role = "default" /\ nb.border = defaultColor

\* a marked card in the center between a marked and an unmarked neighbour,
\* in a carousel of its own colours
C23_Witness ==
    /\ Rendered
    /\ items = <<"y", "y", "x">>
    /\ cursor = 1
    /\ <<activeColor, markedColor, defaultColor>> = <<"201", "82", "245">>
    /\ ret.row.center.border = "201"
    /\ ret.row.left.border = "82"
    /\ ret.row.right.border = "245"

\* C24: the position indicator of a render has exactly len(items) glyphs,
\* exactly one of them filled, at position cursor; the others are hollow.
C24_Dots ==
    Rendered
    => LET n == Len(items)
       IN /\ Len(ret.dots) = n
          /\ Cardinality({i \in 1..n : ret.dots[i].glyph = "filled"}) = 1
          /\ \A i \in 1..n :
                ret.dots[i].glyph = IF i - 1 = cursor THEN "filled"
                                    ELSE "hollow"

\* a render at the middle card of three
C24_Witness ==
    /\ Rendered
    /\ Len(items) = 3
    /\ cursor = 1
    /\ ret.dots[2].glyph = "filled"
    /\ ret.dots[1].glyph = "hollow"
    /\ ret.dots[3].glyph = "hollow"

\* C25: for every available width, the peek width of a render is
\* max(8, min((centerWidth+2)/2, floor((usable - centerWidth - 4)/2))) with
\* usable = availableWidth - 6: the truncating division of the code gives
\* the same peek width as floor division, a negative numerator included.
C25_PeekWidthFormula ==
    Rendered
    => LET usable == width - 6
           floorPeek == (usable - ret.centerW - 4) \div 2
           truncPeek == Quot(usable - ret.centerW - 4, 2)
           cap == (ret.centerW + 2) \div 2
       IN /\ ret.peekW = Max(8, Min(cap, floorPeek))
          /\ ret.peekW = Max(8, Min(cap, truncPeek))

\* a render whose numerator is negative and odd, where truncating and floor
\* division differ
C25_Witness ==
    /\ Rendered
    /\ width - 6 - ret.centerW - 4 < 0
    /\ Quot(width - 6 - ret.centerW - 4, 2) # (width - 6 - ret.centerW - 4) \div 2
    /\ ret.peekW = 8

\* C28: SetSize changes only the stored width and height (cursor and items
\* are unchanged) and may be called any number of times; the layout of a
\* render depends only on the width of the most recent SetSize, not on
\* earlier widths, on the height, or on earlier renders.
C28_SetSizeOnlyLatestWidth ==
    /\ last.op = "SetSize"
       => /\ cursor = last.cursor0
          /\ items = last.items0
          /\ width = last.size.w
          /\ height = last.size.h
    /\ Rendered
       => /\ ret.centerW = CenterW(last.size.w)
          /\ ret.peekW = PeekW(last.size.w)
          /\ ret.cardContentH = CardContentH(last.size.w)

\* a render at the third card after a second SetSize, of width 80 and a
\* height that is not the width
C28_Witness ==
    /\ Rendered
    /\ last.size = [w |-> 80, h |-> 24, calls |-> 2]
    /\ cursor = 2
    /\ ret.centerW = 44
    /\ ret.peekW = 13

\* C26: peekLeft and peekRight return every line whose visible width is
\* already at most n unchanged, clip each line independently of the others,
\* and preserve the number of lines.
C26_ShortLinesUnchanged ==
    last.op \in {"peekLeft", "peekRight"}
    => LET s == last.s
           n == last.n
       IN /\ Len(ret.lines) = Len(s)
          /\ \A i \in 1..Len(s) :
                StringWidth(s[i]) <= n => ret.lines[i] = s[i]
          /\ \A i \in 1..Len(s) :
                IF last.op = "peekLeft"
                THEN ret.lines[i] = PeekLeft(<<s[i]>>, n)[1]
                ELSE ret.lines[i] \in {PeekRight(<<s[i]>>, n, keep)[1] :
                                         keep \in BOOLEAN}

\* peekRight on a block of a long and a short line: the long one is cut to
\* its last column, the short one is returned as it is
C26_Witness ==
    /\ last.op = "peekRight"
    /\ last.s = <<(<<"a", "a">>), (<<"a">>)>>
    /\ last.n = 1
    /\ ret.lines = <<(<<"a">>), (<<"a">>)>>

\* C31: Update on an empty item sequence is inert: for every key, the
\* select keys included, and every stored cursor value, it returns the
\* model unchanged and no command, and indexes no item.
C31_UpdateEmptyInert ==
    (Updated /\ Len(last.items0) = 0)
    => /\ cursor = last.cursor0
       /\ items = last.items0
       /\ ret = NilCmd

\* enter on an empty carousel whose stored cursor is not 0
C31_Witness ==
    /\ Updated
    /\ last.items0 = <<>>
    /\ last.key = "enter"
    /\ last.cursor0 > 0
    /\ cursor = last.cursor0
    /\ ret = NilCmd

\* C33: for every available width with usable = availableWidth - 6 >= 44,
\* the layout of a render satisfies
\* 2*peekWidth + 2*gap + centerWidth <= usable, with gap = 2.
C33_CardRowFits ==
    (Rendered /\ width - 6 >= 44)
    => 2 * ret.peekW + 2 * 2 + ret.centerW <= width - 6

\* the narrowest such width, where the row takes the usable width whole, or
\* a wide one, where it leaves room
C33_Witness ==
    /\ Rendered
    /\ width \in {50, 110}
    /\ 2 * ret.peekW + 4 + ret.centerW = IF width = 50 THEN 44 ELSE 94

\* C34: SetItems with an empty or nil sequence leaves the stored cursor
\* unchanged, so that a following SetItems with a sequence longer than that
\* cursor restores the same cursor position rather than 0, and a following
\* SetItems with a shorter non-empty sequence clamps it to the last index.
C34_CursorSurvivesEmpty ==
    /\ (last.op = "SetItems" /\ items = <<>>) => cursor = last.cursor0
    /\ (last.op = "SetItems" /\ last.prev.emptied /\ Len(items) > 0)
       => /\ last.prev.cursor0 < Len(items) => cursor = last.prev.cursor0
          /\ last.prev.cursor0 >= Len(items) => cursor = Len(items) - 1

\* three items come back after the carousel was emptied with the cursor on
\* its third card
C34_Witness ==
    /\ last.op = "SetItems"
    /\ last.prev = [emptied |-> TRUE, cursor0 |-> 2]
    /\ Len(items) = 3
    /\ cursor = 2

\* C32: for every key, Update may change only the cursor: the items
\* (content, order and length), the stored width and height, the title, the
\* colours and the extra footer text of the returned model equal those of
\* the model it was called on, and that model value is not modified.
C32_UpdateFrame ==
    Updated
    => LET m0 == last.m0
       IN /\ m0.items = last.items0
          /\ m0.cursor = last.cursor0
          /\ m0.width = last.size.w
          /\ m0.height = last.size.h
          /\ items = m0.items
          /\ width = m0.width
          /\ height = m0.height
          /\ title = m0.title
          /\ activeColor = m0.activeColor
          /\ markedColor = m0.markedColor
          /\ defaultColor = m0.defaultColor
          /\ extraFooter = m0.extraFooter
          /\ last.recv = m0

\* a move to the right on a sized carousel: the returned model has the new
\* cursor, the model the call was made on has the old one
C32_Witness ==
    /\ Updated
    /\ last.key = "l"
    /\ items = <<"x", "y", "x">>
    /\ width = 80
    /\ title = "My Reading List"
    /\ last.cursor0 = 1
    /\ cursor = 2
    /\ last.recv.cursor = 1

\* C35: on a carousel of n > 0 items, from any cursor position, repeated
\* Update(right) eventually reaches index n-1 and stays there, and repeated
\* Update(left) eventually reaches index 0 and stays there; each call on
\* the way moves the cursor to the next index, so that every index in
\* between is passed exactly once and every index of [0, n) is reachable
\* from every other by moves alone.
C35_EveryCardReachable ==
    /\ [](last.streak.dir = "right" => <>[](cursor = Len(items) - 1))
    /\ [](last.streak.dir = "left" => <>[](cursor = 0))
    /\ [][/\ last'.streak.dir = "right"
             => cursor' = (IF cursor < Len(items) - 1 THEN cursor + 1
                           ELSE cursor)
          /\ last'.streak.dir = "left"
             => cursor' = (IF cursor > 0 THEN cursor - 1 ELSE cursor)
          /\ items' = items]_vars

\* a run to the left from the third card: two moves reach the first card,
\* the third stays on it
C35_Witness ==
    /\ Updated
    /\ Len(items) = 3
    /\ last.streak = [dir |-> "left", from |-> 2, len |-> 3]
    /\ cursor = 0

Built == last.op = "New"

\* C30: the ItemSelectedMsg of the command a select returned carries the
\* index and the item read when Update was called, even if SetItems or
\* SetCursor is applied between that call and the run of the command.
C30_SelectionSnapshot ==
    last.op = "Cmd"
    => /\ ret.kind = "msg"
       /\ ret.Index = held.cursor0
       /\ ret.Item = held.item0

\* the command of a select of "y", the second of two cards, runs after the
\* items were replaced by the single item "x"
C30_Witness ==
    /\ last.op = "Cmd"
    /\ held.cursor0 = 1
    /\ held.item0 = "y"
    /\ items = <<"x">>
    /\ cursor = 0
    /\ ret = [kind |-> "msg", Index |-> 1, Item |-> "y"]

\* C27: New yields cursor 0 for every Config, a nil item sequence becomes
\* the empty sequence, and each of the three colours is its default
\* ("#fb6820" active, "28" marked, "240" default) exactly when the
\* configured value is empty, and the configured value otherwise.
C27_NewDefaults ==
    Built
    => LET cfg == last.cfg
       IN /\ cursor = 0
          /\ cfg.Items.nil => items = <<>>
          /\ ~cfg.Items.nil => items = cfg.Items.elems
          /\ activeColor = (IF cfg.ActiveColor = "" THEN "#fb6820"
                            ELSE cfg.ActiveColor)
          /\ markedColor = (IF cfg.MarkedColor = "" THEN "28"
                            ELSE cfg.MarkedColor)
          /\ defaultColor = (IF cfg.DefaultColor = "" THEN "240"
                             ELSE cfg.DefaultColor)
          /\ activeColor = "#fb6820" <=> cfg.ActiveColor = ""
          /\ markedColor = "28" <=> cfg.MarkedColor = ""
          /\ defaultColor = "240" <=> cfg.DefaultColor = ""

\* a Config of nil items that names a marked colour and no other
C27_Witness ==
    /\ Built
    /\ last.cfg.Items.nil
    /\ items = <<>>
    /\ last.cfg.ActiveColor = ""
    /\ last.cfg.MarkedColor = "82"
    /\ <<activeColor, markedColor, defaultColor>> = <<"#fb6820", "82", "240">>

----------------------------------------------------------------------------
(* The command palette.  An Action is taken by its Label.  The text input  *)
(* (bubbles/textinput) and the matcher (sahilm/fuzzy) are libraries: the   *)
(* input is the value it holds, whether it is focused, and its Width; of   *)
(* the matcher only what every result has is kept, namely that it names    *)
(* each action at most once, in an order of its own choosing.              *)

ActionVals == {"Edit", "Sync"}

ActionSeqs == UNION {[1..k -> ActionVals] : k \in 0..MaxActions}

NilActions == [nil |-> TRUE, elems |-> <<>>]

ActionArgs == {[nil |-> FALSE, elems |-> a] : a \in ActionSeqs} \cup {NilActions}

\* the runes typed into the query; "j" and "k" are printable runes as well
Chars == {"a", " "}
Printable == Chars \cup {"j", "k"}
PalKeys == {"up", "k", "down", "j", "enter", "backspace", "esc"} \cup Chars

CfgMaxResults == 0..MaxCfgResults
CfgMaxWidths == {0, 40}
PalWidths == {4, 80}
PalHeights == {24}

(* New *)

NormalizeActions(arg) == IF arg.nil THEN <<>> ELSE arg.elems

CfgOrDefault(v, def) == IF v = 0 THEN def ELSE v

(* textinput.Model.Update: a blurred input ignores the key; a focused one   *)
(* appends a typed rune and deletes the last rune on backspace (no key of   *)
(* PalKeys moves the input's own cursor away from the end)                  *)
InputUpdate(q, f, key) ==
    IF ~f THEN q
    ELSE IF key \in Printable THEN Append(q, key)
    ELSE IF key = "backspace" /\ Len(q) > 0 THEN SubSeq(q, 1, Len(q) - 1)
    ELSE q

(* applyFilter *)

\* strings.TrimSpace(query) == ""
\* only the empty query taken to be blank
BlankEmptyOnly(q) == q = <<>>

Blank(q) == \A i \in 1..Len(q) : q[i] = " "

\* the results fuzzy.Find may give on n sources: the indices of the matches,
\* each source at most once, best match first
Matches(n) ==
    {ix \in UNION {[1..k -> 1..n] : k \in 0..n} :
        \A i, j \in 1..Len(ix) : i # j => ix[i] # ix[j]}

\* the filtered lists applyFilter may leave
ApplyFilter(acts, q) ==
    IF Blank(q) THEN {acts}
    ELSE {[i \in 1..Len(ix) |-> acts[ix[i]]] : ix \in Matches(Len(acts))}

(* Update *)

VisibleCount(flt, mr) == Min(Len(flt), mr)

PalMoveUp(c) == IF c > 0 THEN c - 1 ELSE c

\* the cursor let onto the row after the last visible one
PalMoveDownPastEnd(c, visibleCount) == IF c < visibleCount THEN c + 1 ELSE c

PalMoveDown(c, visibleCount) == IF c < visibleCount - 1 THEN c + 1 ELSE c

\* indexing a slice outside its range panics
Panic == [kind |-> "panic"]

\* the first result taken instead of the highlighted one
EnterCmdFirst(flt, c, visibleCount) ==
    IF visibleCount = 0 THEN NilCmd
    ELSE IF 1 \in DOMAIN flt THEN [kind |-> "cmd", Action |-> flt[1]]
    ELSE Panic

EnterCmd(flt, c, visibleCount) ==
    IF visibleCount = 0 THEN NilCmd
    ELSE IF c + 1 \in DOMAIN flt THEN [kind |-> "cmd", Action |-> flt[c + 1]]
    ELSE Panic

(* Reset *)

\* the filtered list left as it is
ResetFilteredKeep(acts, flt) == flt

ResetFiltered(acts, flt) == acts

(* SetActions *)

\* the max(0, ...) left out
SetActionsCursorNoMax(c, limit) == IF c >= limit THEN limit - 1 ELSE c

SetActionsCursor(c, limit) == IF c >= limit THEN Max(0, limit - 1) ELSE c

(* SetSize *)

SetSizeInputWidth(iw, mw, w) ==
    LET textW == Min(mw, w) - 6
    IN IF textW > 0 THEN textW ELSE iw

(* Results *)

\* the cap of maxResults left out
ResultsOfUncapped(flt, mr) == flt

ResultsOf(flt, mr) == IF Len(flt) > mr THEN SubSeq(flt, 1, mr) ELSE flt

(* The palette's state machine *)

carVars == <<items, cursor, width, height, last, ret, cfgVars, held>>

\* the carousel made by New(Config{}) and not used
CarIdle ==
    /\ items = <<>>
    /\ cursor = 0
    /\ width = 0
    /\ height = 0
    /\ last = [op |-> "New", key |-> "", idx |-> 0, nilArg |-> TRUE,
               items0 |-> <<>>, cursor0 |-> 0, streak |-> NoStreak,
               size |-> NoSize]
    /\ activeColor = "#fb6820"
    /\ markedColor = "28"
    /\ defaultColor = "240"
    /\ title = ""
    /\ extraFooter = ""
    /\ held = NoCmd
    /\ ret = Void

\* the record of a call; a call that changes part of the state records that
\* part as it was, the rest is left empty
PalCall(op, key, arg, acts0, flt0, q0, c0) ==
    [op |-> op, key |-> key, arg |-> arg, actions0 |-> acts0,
     filtered0 |-> flt0, query0 |-> q0, cursor0 |-> c0,
     maxResults0 |-> maxResults, maxWidth0 |-> maxWidth]

PalInit ==
    \E arg \in ActionArgs, mr \in CfgMaxResults, mw \in CfgMaxWidths :
        /\ actions = NormalizeActions(arg)
        /\ filtered = NormalizeActions(arg)
        /\ palCursor = 0
        /\ query = <<>>
        /\ focus = FALSE
        /\ maxResults = CfgOrDefault(mr, defaultMaxResults)
        /\ maxWidth = CfgOrDefault(mw, defaultMaxWidth)
        /\ inputWidth = CfgOrDefault(mw, defaultMaxWidth) - 6
        /\ palWidth = 0
        /\ palHeight = 0
        /\ palLast = [op |-> "New", key |-> "", arg |-> NormalizeActions(arg),
                      actions0 |-> <<>>, filtered0 |-> <<>>, query0 |-> <<>>,
                      cursor0 |-> 0,
                      maxResults0 |-> CfgOrDefault(mr, defaultMaxResults),
                      maxWidth0 |-> CfgOrDefault(mw, defaultMaxWidth)]
        /\ palRet = Void
        /\ CarIdle

PalFocus ==
    /\ focus' = TRUE
    /\ palRet' = [kind |-> "blink"]
    /\ palLast' = PalCall("Focus", "", <<>>, <<>>, <<>>, <<>>, 0)
    /\ UNCHANGED <<actions, filtered, palCursor, query, inputWidth,
                   maxResults, maxWidth, palWidth, palHeight>>
    /\ UNCHANGED carVars

PalReset ==
    /\ query' = <<>>
    /\ filtered' = ResetFiltered(actions, filtered)
    /\ palCursor' = 0
    /\ palRet' = Void
    /\ palLast' = PalCall("Reset", "", <<>>, actions, <<>>, query, palCursor)
    /\ UNCHANGED <<actions, focus, inputWidth, maxResults, maxWidth,
                   palWidth, palHeight>>
    /\ UNCHANGED carVars

PalSetSize ==
    \E w \in PalWidths, h \in PalHeights :
        /\ palWidth' = w
        /\ palHeight' = h
        /\ inputWidth' = SetSizeInputWidth(inputWidth, maxWidth, w)
        /\ palRet' = Void
        /\ palLast' = PalCall("SetSize", "", <<>>, <<>>, <<>>, <<>>, 0)
        /\ UNCHANGED <<actions, filtered, palCursor, query, focus,
                       maxResults, maxWidth>>
        /\ UNCHANGED carVars

PalSetActions ==
    \E arg \in ActionArgs :
    \E flt \in ApplyFilter(NormalizeActions(arg), query) :
        /\ actions' = NormalizeActions(arg)
        /\ filtered' = flt
        /\ palCursor' = SetActionsCursor(palCursor, Min(Len(flt), maxResults))
        /\ palRet' = Void
        /\ palLast' = PalCall("SetActions", "", arg.elems, <<>>, <<>>, query, palCursor)
        /\ UNCHANGED <<query, focus, inputWidth, maxResults, maxWidth,
                       palWidth, palHeight>>
        /\ UNCHANGED carVars

PalUpdate ==
    \E key \in PalKeys :
        /\ palLast' = PalCall("Update", key, <<>>, <<>>, filtered, query, palCursor)
        /\ UNCHANGED <<actions, focus, inputWidth, maxResults, maxWidth,
                       palWidth, palHeight>>
        /\ UNCHANGED carVars
        /\ LET visibleCount == VisibleCount(filtered, maxResults)
               q == InputUpdate(query, focus, key)
           IN IF key \in {"up", "k"}
              THEN /\ palCursor' = PalMoveUp(palCursor)
                   /\ palRet' = NilCmd
                   /\ UNCHANGED <<filtered, query>>
              ELSE IF key \in {"down", "j"}
              THEN /\ palCursor' = PalMoveDown(palCursor, visibleCount)
                   /\ palRet' = NilCmd
                   /\ UNCHANGED <<filtered, query>>
              ELSE IF key = "enter"
              THEN /\ palRet' = EnterCmd(filtered, palCursor, visibleCount)
                   /\ UNCHANGED <<filtered, query, palCursor>>
              ELSE /\ Len(q) <= MaxQuery
                   /\ query' = q
                   /\ palRet' = NilCmd
                   /\ IF q # query
                      THEN /\ filtered' \in ApplyFilter(actions, q)
                           /\ palCursor' = 0
                      ELSE UNCHANGED <<filtered, palCursor>>

PalResults ==
    /\ palRet' = [kind |-> "results", list |-> ResultsOf(filtered, maxResults)]
    /\ palLast' = PalCall("Results", "", <<>>, <<>>, <<>>, <<>>, 0)
    /\ UNCHANGED <<actions, filtered, palCursor, query, focus, inputWidth,
                   maxResults, maxWidth, palWidth, palHeight>>
    /\ UNCHANGED carVars

PalNext ==
    PalFocus \/ PalReset \/ PalSetSize \/ PalSetActions \/ PalUpdate \/ PalResults

SpecPalette == PalInit /\ [][PalNext]_vars

----------------------------------------------------------------------------
(* Properties of the command palette *)

Visible == Min(Len(filtered), maxResults)

\* C15: with MaxResults >= 1, after any sequence of Update, SetActions, Reset
\* and SetSize calls from New the cursor is >= 0 and, whenever at least one
\* result is visible, below min(len(filtered), MaxResults).
C15_CursorOnVisibleResult ==
    maxResults >= 1
    => /\ palCursor >= 0
       /\ Visible >= 1 => palCursor < Visible

\* "down" pressed on the last visible row while more results are filtered
\* than are shown
C15_Witness ==
    /\ palLast.op = "Update"
    /\ palLast.key = "down"
    /\ Len(filtered) > maxResults
    /\ palLast.cursor0 = maxResults - 1

\* C16: Update with enter returns a command carrying filtered[cursor] and
\* leaves query, cursor and filtered unchanged; with zero visible results it
\* returns no command; it never indexes outside the filtered list.
C16_EnterSelectsHighlighted ==
    (palLast.op = "Update" /\ palLast.key = "enter")
    => /\ palRet.kind # "panic"
       /\ query = palLast.query0
       /\ palCursor = palLast.cursor0
       /\ filtered = palLast.filtered0
       /\ Min(Len(palLast.filtered0), maxResults) = 0 => palRet = NilCmd
       /\ Min(Len(palLast.filtered0), maxResults) > 0
          => /\ palLast.cursor0 + 1 \in DOMAIN palLast.filtered0
             /\ palRet = [kind |-> "cmd",
                          Action |-> palLast.filtered0[palLast.cursor0 + 1]]

\* enter on the second of two different results
C16_Witness ==
    /\ palLast.op = "Update"
    /\ palLast.key = "enter"
    /\ palLast.cursor0 = 1
    /\ palLast.filtered0 = <<"Edit", "Sync">>
    /\ palRet.kind = "cmd"

\* C17: Update with any printable character, or with backspace on a
\* non-empty query, given to a focused palette changes the query and
\* re-filters the results; every Update that changes the query resets the
\* cursor to 0.
C17_LiveFiltering ==
    palLast.op = "Update"
    => /\ (/\ focus
           /\ \/ palLast.key \in {"a", " ", "j", "k"}
              \/ palLast.key = "backspace" /\ palLast.query0 # <<>>)
          => (query # palLast.query0 /\ filtered \in ApplyFilter(actions, query))
       /\ query # palLast.query0 => palCursor = 0

\* C18: Reset leaves the query empty, the filtered list equal to the full
\* action list in its order, and the cursor at 0; the action list,
\* MaxResults and MaxWidth are as before.
C18_Reset ==
    palLast.op = "Reset"
    => /\ query = <<>>
       /\ filtered = actions
       /\ palCursor = 0
       /\ actions = palLast.actions0
       /\ maxResults = palLast.maxResults0
       /\ maxWidth = palLast.maxWidth0

\* Reset of a palette with a query typed, the cursor moved down and fewer
\* results filtered than there are actions
C18_Witness ==
    /\ palLast.op = "Reset"
    /\ palLast.query0 = <<"a">>
    /\ palLast.cursor0 > 0
    /\ Len(actions) = 2

\* C19: SetActions replaces the action list, leaves the query unchanged and
\* re-applies it to the new list, and clamps the cursor: if it is at or past
\* limit = min(len(filtered), MaxResults) it becomes max(0, limit-1),
\* otherwise it is unchanged.
C19_SetActions ==
    palLast.op = "SetActions"
    => /\ actions = palLast.arg
       /\ query = palLast.query0
       /\ Blank(query) => filtered = actions
       /\ Len(filtered) <= Len(actions)
       /\ \A i \in 1..Len(filtered) : \E j \in 1..Len(actions) : filtered[i] = actions[j]
       /\ palLast.cursor0 >= Visible => palCursor = Max(0, Visible - 1)
       /\ palLast.cursor0 < Visible => palCursor = palLast.cursor0

\* the action list replaced by an empty one while the cursor is on the
\* second row
C19_Witness ==
    /\ palLast.op = "SetActions"
    /\ palLast.cursor0 = 1
    /\ actions = <<>>
    /\ palCursor = 0

\* C20: Results() returns the prefix of the filtered list of length
\* min(len(filtered), MaxResults), so never more than MaxResults actions.
C20_ResultsCapped ==
    palLast.op = "Results"
    => /\ palRet.list = SubSeq(filtered, 1, Min(Len(filtered), maxResults))
       /\ Len(palRet.list) <= maxResults

\* Results() while more results are filtered than MaxResults allows
C20_Witness ==
    /\ palLast.op = "Results"
    /\ Len(filtered) > maxResults
    /\ Len(palRet.list) = maxResults

\* C29: whenever the query is empty or holds only whitespace, filtered is the
\* full action list in its original order: initially, after Reset, after
\* SetActions and after the query is deleted back to empty.
C29_EmptyQueryShowsAll ==
    (\A i \in 1..Len(query) : query[i] = " ") => filtered = actions

\* the only character of a query that had narrowed the list of two actions
\* is deleted
C29_Witness ==
    /\ palLast.op = "Update"
    /\ palLast.key = "backspace"
    /\ palLast.query0 = <<"a">>
    /\ palLast.filtered0 # actions
    /\ query = <<>>
    /\ Len(actions) = 2
    /\ filtered = actions

====
